---------------------------- MODULE Spec2Model ----------------------------
(***************************************************************************)
(* Travel-package admin: the AddEditPackageModal form component and the    *)
(* usePackages data-access hook, with the remote tables they talk to.      *)
(*                                                                         *)
(* Text is a sequence of one-character strings, so that trim, parseInt,    *)
(* parseFloat and toString are computed character by character.  A remote  *)
(* call is issued and executed by the backend in one step; the code after  *)
(* its await runs in a later step, so other handlers can run in between.   *)
(***************************************************************************)
EXTENDS Integers, Sequences, FiniteSets, TLC

(***************************************************************************)
(* Bounds of the model.                                                    *)
(***************************************************************************)
\* Largest single-digit duration the user types.
MaxDays == 2
\* Number of package identifiers the backend hands out.
MaxPackages == 2
\* Number of rows package_itinerary may hold.
MaxItinRows == 2

(***************************************************************************)
(* Text and number helpers (JavaScript built-ins used by the source).      *)
(***************************************************************************)
Digits == <<"0", "1", "2", "3", "4", "5", "6", "7", "8", "9">>

IsDigit(c) == \E i \in 1..10 : Digits[i] = c

DigitVal(c) == (CHOOSE i \in 1..10 : Digits[i] = c) - 1

\* A JavaScript number: NaN, or mant / 10^scale with no trailing zero in
\* the fraction.
NaN == [nan |-> TRUE, mant |-> 0, scale |-> 0]

Num(m, s) == [nan |-> FALSE, mant |-> m, scale |-> s]

RECURSIVE DropLeadingSpace(_)
DropLeadingSpace(s) ==
  IF s # <<>> /\ Head(s) = " " THEN DropLeadingSpace(Tail(s)) ELSE s

RECURSIVE DropTrailingSpace(_)
DropTrailingSpace(s) ==
  IF s # <<>> /\ s[Len(s)] = " "
  THEN DropTrailingSpace(SubSeq(s, 1, Len(s) - 1))
  ELSE s

\* String.prototype.trim
Trim(s) == DropTrailingSpace(DropLeadingSpace(s))

RECURSIVE DigitPrefix(_)
DigitPrefix(s) ==
  IF s # <<>> /\ IsDigit(Head(s))
  THEN <<Head(s)>> \o DigitPrefix(Tail(s))
  ELSE <<>>

RECURSIVE DigitsValue(_)
DigitsValue(ds) ==
  IF ds = <<>> THEN 0
  ELSE 10 * DigitsValue(SubSeq(ds, 1, Len(ds) - 1)) + DigitVal(ds[Len(ds)])

RECURSIVE DropTrailingZeros(_)
DropTrailingZeros(ds) ==
  IF ds # <<>> /\ ds[Len(ds)] = "0"
  THEN DropTrailingZeros(SubSeq(ds, 1, Len(ds) - 1))
  ELSE ds

\* parseInt(s): leading blanks, an optional sign, then the longest run of
\* digits; NaN when there is no digit.
parseInt(s) ==
  LET t   == DropLeadingSpace(s)
      neg == t # <<>> /\ Head(t) = "-"
      u   == IF t # <<>> /\ Head(t) \in {"-", "+"} THEN Tail(t) ELSE t
      ds  == DigitPrefix(u)
  IN  IF ds = <<>> THEN NaN
      ELSE Num(IF neg THEN 0 - DigitsValue(ds) ELSE DigitsValue(ds), 0)

\* parseFloat(s): as parseInt, with an optional fraction after a "."; the
\* input alphabet has no exponent.
parseFloat(s) ==
  LET t    == DropLeadingSpace(s)
      neg  == t # <<>> /\ Head(t) = "-"
      u    == IF t # <<>> /\ Head(t) \in {"-", "+"} THEN Tail(t) ELSE t
      ip   == DigitPrefix(u)
      rest == SubSeq(u, Len(ip) + 1, Len(u))
      fp   == IF rest # <<>> /\ Head(rest) = "."
              THEN DropTrailingZeros(DigitPrefix(Tail(rest)))
              ELSE <<>>
      any  == ip # <<>> \/ (rest # <<>> /\ Head(rest) = "."
                            /\ DigitPrefix(Tail(rest)) # <<>>)
      m    == DigitsValue(ip \o fp)
  IN  IF ~any THEN NaN
      ELSE Num(IF neg THEN 0 - m ELSE m, Len(fp))

\* x <= 0 on JavaScript numbers: false for NaN.
LeqZero(x) == ~x.nan /\ x.mant <= 0

\* x || 0 for the integer x that parseInt returned.
OrZero(x) == IF x.nan \/ x.mant = 0 THEN 0 ELSE x.mant

RECURSIVE NatToString(_)
NatToString(n) ==
  IF n < 10 THEN <<Digits[n + 1]>>
  ELSE NatToString(n \div 10) \o <<Digits[(n % 10) + 1]>>

RECURSIVE Pow10(_)
Pow10(k) == IF k = 0 THEN 1 ELSE 10 * Pow10(k - 1)

RECURSIVE PadFraction(_, _)
PadFraction(ds, k) == IF Len(ds) < k THEN PadFraction(<<"0">> \o ds, k) ELSE ds

\* Number.prototype.toString for the numbers above.
NumToString(x) ==
  IF x.nan THEN <<"N", "a", "N">>
  ELSE LET a    == IF x.mant < 0 THEN 0 - x.mant ELSE x.mant
           sign == IF x.mant < 0 THEN <<"-">> ELSE <<>>
           int  == NatToString(a \div Pow10(x.scale))
           frac == PadFraction(NatToString(a % Pow10(x.scale)), x.scale)
       IN  IF x.scale = 0 THEN sign \o int
           ELSE sign \o int \o <<".">> \o frac


(***************************************************************************)
(* State.                                                                  *)
(***************************************************************************)
VARIABLES
  \* backend tables and the identifier/creation-time generator
  dbPackages, dbItinerary, nextId,
  \* usePackages state, and the hook operations in flight
  packages, loading, error, destinationId, tasks,
  \* AddEditPackageModal props and state
  pkg, title, description, duration, price, mainImageUrl,
  selectedDestinationId, itineraryDescriptions, formLoading, formError,
  \* fetchExistingItinerary in flight, whether onClose was invoked, and the
  \* parity of the number of submit events handled
  itinFetch, closed, submitSeq

backendVars == <<dbPackages, dbItinerary, nextId>>

hookVars == <<packages, loading, error, destinationId, tasks>>

formVars == <<pkg, title, description, duration, price, mainImageUrl,
              selectedDestinationId, itineraryDescriptions, formLoading,
              formError, itinFetch, closed, submitSeq>>

vars == <<backendVars, hookVars, formVars>>

(***************************************************************************)
(* The backend collaborator: packages is a set of rows, package_itinerary  *)
(* a sequence of rows (nothing in the code keeps package_id unique).       *)
(***************************************************************************)
\* What a failing remote call returns.  The client hands back either an
\* Error instance or a plain object with a message.
BackendErrors ==
  { [isError |-> b, message |-> "backend error"] : b \in BOOLEAN }

\* The outcome of one remote call: <<>> (no error) or <<e>>.
Outcomes == {<<>>} \cup { <<e>> : e \in BackendErrors }

NoResp == [err |-> <<>>, rows |-> <<>>]

\* A row of packages from the inserted record and the backend-made fields.
MakeRow(p, id, created) ==
  [ id             |-> id,
    destination_id |-> p.destination_id,
    title          |-> p.title,
    description    |-> p.description,
    duration       |-> p.duration,
    price          |-> p.price,
    main_image_url |-> p.main_image_url,
    rating         |-> p.rating,
    created_at     |-> created ]

\* update(updates): the fields present in updates overwrite the row's.
ApplyUpdates(r, u) ==
  [ id             |-> IF "id" \in DOMAIN u THEN u.id ELSE r.id,
    destination_id |-> IF "destination_id" \in DOMAIN u
                       THEN u.destination_id ELSE r.destination_id,
    title          |-> IF "title" \in DOMAIN u THEN u.title ELSE r.title,
    description    |-> IF "description" \in DOMAIN u
                       THEN u.description ELSE r.description,
    duration       |-> IF "duration" \in DOMAIN u
                       THEN u.duration ELSE r.duration,
    price          |-> IF "price" \in DOMAIN u THEN u.price ELSE r.price,
    main_image_url |-> IF "main_image_url" \in DOMAIN u
                       THEN u.main_image_url ELSE r.main_image_url,
    rating         |-> IF "rating" \in DOMAIN u THEN u.rating ELSE r.rating,
    created_at     |-> r.created_at ]

\* order('created_at', { ascending: false })
RECURSIVE SortDesc(_)
SortDesc(S) ==
  IF S = {} THEN <<>>
  ELSE LET m == CHOOSE r \in S : \A q \in S : q.created_at <= r.created_at
       IN  <<m>> \o SortDesc(S \ {m})

\* select('*').order(created_at desc), with eq(destination_id) when the
\* filter is truthy.
QueryPackages(filter) ==
  SortDesc({ r \in dbPackages : filter = "" \/ r.destination_id = filter })

\* The package_itinerary rows of one package.
ItineraryRowsOf(id) == SelectSeq(dbItinerary, LAMBDA r : r.package_id = id)

(***************************************************************************)
(* usePackages: one record per operation in flight.                        *)
(***************************************************************************)
\* Who has an operation of the hook in flight: the modal awaiting its
\* save, the hook's own effect (fetchPackages), and the component that
\* calls the returned operations and awaits each one.
FormSlot == "form"

FetchSlot == "fetch"

CallerSlot == "caller"

Slots == {FormSlot, FetchSlot, CallerSlot}

IdleTask ==
  [ op |-> "idle", pc |-> "idle", id |-> 0, desc |-> <<>>, resp |-> NoResp,
    calls |-> <<>>, sawError |-> FALSE, lateCall |-> FALSE,
    thrown |-> <<>>, value |-> <<>> ]

Call(tbl, verb, id, days) ==
  [ tbl |-> tbl, verb |-> verb, package_id |-> id, no_of_days |-> days,
    failed |-> FALSE ]

\* The operation issues a remote call and receives resp for it.  lateCall
\* records a call issued after an earlier call of the operation had
\* returned an error.
Issued(task, call, resp, pc) ==
  [ task EXCEPT !.calls = Append(@, [call EXCEPT !.failed = resp.err # <<>>]),
                !.lateCall = @ \/ task.sawError,
                !.sawError = @ \/ resp.err # <<>>,
                !.resp = resp,
                !.pc = pc ]

Rejected(task, e) == [task EXCEPT !.pc = "rejected", !.thrown = <<e>>]

Resolved(task, v) == [task EXCEPT !.pc = "resolved", !.value = v]

InFlight(t) == tasks[t].pc \notin {"idle", "resolved", "rejected"}

(***************************************************************************)
(* Inputs the callers of the hook pass.                                    *)
(***************************************************************************)
Destinations == {"D1", "D2"}

\* Non-blank itinerary texts the backend may hold.
DayA == <<"a">>

DayB == <<"b">>

SamplePackage(dest, ttl) ==
  [ destination_id |-> dest,
    title          |-> ttl,
    description    |-> <<"D">>,
    duration       |-> Num(2, 0),
    price          |-> Num(95, 1),
    main_image_url |-> <<"u">>,
    rating         |-> Num(0, 0) ]

AddInputs == { SamplePackage(d, <<"T">>) : d \in Destinations }

UpdateInputs == { [destination_id |-> "D2"] }

PackageIds == 1..MaxPackages

\* Description lists handed to addOrUpdateItinerary, and to the composite
\* save (which checks them).
DescInputs == { <<DayA>>, <<DayA, DayB>> }

CompositeDescInputs == { <<>>, <<DayA, <<" ">>>>, <<DayB>> }

\* The identifiers the caller has at hand: those of the cached list.
CachedIds == { packages[i].id : i \in DOMAIN packages }

(***************************************************************************)
(* fetchPackages                                                           *)
(***************************************************************************)
\* CacheAfterFetch emptying the list when the fetch failed.
CacheClearedOnError(prev, resp) ==
  IF resp.err # <<>> THEN <<>> ELSE resp.rows

\* The cached list after the fetch's response was handled.
CacheAfterFetch(prev, resp) ==
  IF resp.err # <<>> THEN prev ELSE resp.rows

\* MessageOf without the fallback.
MessageOfNoFallback(e, fallback) == IF e.isError THEN e.message ELSE ""

\* err instanceof Error ? err.message : fallback
MessageOf(e, fallback) == IF e.isError THEN e.message ELSE fallback

fetchPackages(t) ==
  /\ tasks[t].pc = "idle"
  /\ \E o \in Outcomes :
       LET resp == [err |-> o,
                    rows |-> IF o = <<>> THEN QueryPackages(destinationId)
                             ELSE <<>>]
       IN  tasks' = [tasks EXCEPT ![t] =
                       Issued([IdleTask EXCEPT !.op = "fetch"],
                              Call("packages", "select", 0, 0), resp,
                              "fetch_wait")]
  /\ UNCHANGED <<backendVars, packages, loading, error, destinationId>>

\* The code after the await of line 21; fetchPackages never rejects.
fetchPackagesResume(t) ==
  /\ tasks[t].pc = "fetch_wait"
  /\ packages' = CacheAfterFetch(packages, tasks[t].resp)
  /\ error' = IF tasks[t].resp.err # <<>>
              THEN <<MessageOf(tasks[t].resp.err[1], "An error occurred")>>
              ELSE error
  /\ loading' = FALSE
  /\ tasks' = [tasks EXCEPT ![t] = IdleTask]
  /\ UNCHANGED <<backendVars, destinationId>>

\* useEffect([destinationId]): a new filter starts a fetch.
ChangeDestination(t, d) ==
  /\ d # destinationId
  /\ tasks[t].pc = "idle"
  /\ destinationId' = d
  /\ \E o \in Outcomes :
       LET resp == [err |-> o,
                    rows |-> IF o = <<>> THEN QueryPackages(d) ELSE <<>>]
       IN  tasks' = [tasks EXCEPT ![t] =
                       Issued([IdleTask EXCEPT !.op = "fetch"],
                              Call("packages", "select", 0, 0), resp,
                              "fetch_wait")]
  /\ UNCHANGED <<backendVars, packages, loading, error>>

(***************************************************************************)
(* addPackage, updatePackage                                               *)
(***************************************************************************)
\* insert([pkg]).select().single(): the backend makes the identifier and
\* the creation time.  Once MaxPackages identifiers are out the call fails.
IssueInsertPackage(t, base, p) ==
  \E o \in Outcomes :
    /\ nextId > MaxPackages => o # <<>>
    /\ LET row  == MakeRow(p, nextId, nextId)
           ok   == o = <<>>
           resp == [err |-> o, rows |-> IF ok THEN <<row>> ELSE <<>>]
       IN  /\ dbPackages' = IF ok THEN dbPackages \cup {row} ELSE dbPackages
           /\ nextId' = IF ok THEN nextId + 1 ELSE nextId
           /\ tasks' = [tasks EXCEPT ![t] =
                          Issued(base,
                                 Call("packages", "insert",
                                      IF ok THEN row.id ELSE 0, 0),
                                 resp, "pkg_wait")]

\* update(updates).eq('id', id).select().single(): an error when no row
\* has the identifier.
IssueUpdatePackage(t, base, id, u) ==
  \E o \in Outcomes :
    LET match == { r \in dbPackages : r.id = id }
        ok    == o = <<>>
        new   == { ApplyUpdates(r, u) : r \in match }
        resp  == [err |-> o, rows |-> IF ok THEN SortDesc(new) ELSE <<>>]
    IN  /\ match = {} => o # <<>>
        /\ dbPackages' = IF ok THEN (dbPackages \ match) \cup new
                         ELSE dbPackages
        /\ nextId' = nextId
        /\ tasks' = [tasks EXCEPT ![t] =
                       Issued(base, Call("packages", "update", id, 0),
                              resp, "pkg_wait")]

addPackage(t, p) ==
  /\ tasks[t].pc = "idle"
  /\ IssueInsertPackage(t, [IdleTask EXCEPT !.op = "add"], p)
  /\ UNCHANGED <<dbItinerary, packages, loading, error, destinationId>>

updatePackage(t, id, u) ==
  /\ tasks[t].pc = "idle"
  /\ IssueUpdatePackage(t, [IdleTask EXCEPT !.op = "update", !.id = id], id, u)
  /\ UNCHANGED <<dbItinerary, packages, loading, error, destinationId>>

\* if (packageError) throw packageError
ThrowsOnError(resp) == resp.err # <<>>

\* setPackages(prev => [packageData, ...prev])
CacheAfterAdd(prev, row) == <<row>> \o prev

\* setPackages(prev => prev.map(p => p.id === id ? packageData : p))
CacheAfterUpdate(prev, id, row) ==
  [ i \in DOMAIN prev |-> IF prev[i].id = id THEN row ELSE prev[i] ]

\* package_itinerary.select('id').eq('package_id', id).maybeSingle(): no
\* row gives null, several rows give an error.
ItineraryCheck(id, o) ==
  [err |-> o, rows |-> IF o = <<>> THEN ItineraryRowsOf(id) ELSE <<>>]

\* The code after the await of addPackage / updatePackage; inside the
\* composite save it goes on to addOrUpdateItinerary(savedPackage.id, ...).
PackageWriteResume(t) ==
  /\ tasks[t].pc = "pkg_wait"
  /\ LET task == tasks[t]
         verb == task.calls[Len(task.calls)].verb
     IN  IF ThrowsOnError(task.resp)
         THEN /\ tasks' = [tasks EXCEPT ![t] = Rejected(task, task.resp.err[1])]
              /\ UNCHANGED packages
         ELSE LET row == task.resp.rows[1]
              IN  /\ packages' = IF verb = "insert"
                                 THEN CacheAfterAdd(packages, row)
                                 ELSE CacheAfterUpdate(packages, task.id, row)
                  /\ IF task.op = "composite"
                     THEN \E o \in Outcomes :
                            /\ Len(ItineraryRowsOf(row.id)) > 1 => o # <<>>
                            /\ tasks' = [tasks EXCEPT ![t] =
                                 Issued([task EXCEPT !.id = row.id,
                                                     !.value = <<row>>],
                                        Call("package_itinerary", "select",
                                             row.id, 0),
                                        ItineraryCheck(row.id, o),
                                        "itin_check_wait")]
                     ELSE tasks' = [tasks EXCEPT ![t] = Resolved(task, <<row>>)]
  /\ UNCHANGED <<backendVars, loading, error, destinationId>>

(***************************************************************************)
(* deletePackage                                                           *)
(***************************************************************************)
\* CacheAfterDelete with the filter inverted.
CacheAfterDeleteInverted(prev, id) == SelectSeq(prev, LAMBDA p : p.id = id)

\* setPackages(prev => prev.filter(p => p.id !== id))
CacheAfterDelete(prev, id) == SelectSeq(prev, LAMBDA p : p.id # id)

deletePackage(t, id) ==
  /\ tasks[t].pc = "idle"
  /\ \E o \in Outcomes :
       /\ dbPackages' = IF o = <<>> THEN { r \in dbPackages : r.id # id }
                        ELSE dbPackages
       /\ tasks' = [tasks EXCEPT ![t] =
                      Issued([IdleTask EXCEPT !.op = "delete", !.id = id],
                             Call("packages", "delete", id, 0),
                             [err |-> o, rows |-> <<>>], "del_wait")]
  /\ UNCHANGED <<dbItinerary, nextId, packages, loading, error, destinationId>>

deletePackageResume(t) ==
  /\ tasks[t].pc = "del_wait"
  /\ LET task == tasks[t]
     IN  IF ThrowsOnError(task.resp)
         THEN /\ tasks' = [tasks EXCEPT ![t] = Rejected(task, task.resp.err[1])]
              /\ UNCHANGED packages
         ELSE /\ packages' = CacheAfterDelete(packages, task.id)
              /\ tasks' = [tasks EXCEPT ![t] = Resolved(task, <<>>)]
  /\ UNCHANGED <<backendVars, loading, error, destinationId>>

(***************************************************************************)
(* addOrUpdateItinerary, getItinerary                                      *)
(***************************************************************************)
\* ItineraryInsertRow without the day count.
ItineraryInsertRowNoCount(id, desc) ==
  [package_id |-> id, no_of_days |-> 0, description |-> desc]

\* The row insert([{package_id, no_of_days, description}]) makes.
ItineraryInsertRow(id, desc) ==
  [package_id |-> id, no_of_days |-> Len(desc), description |-> desc]

\* update({description}).eq('package_id', id) on one matching row.
ItineraryUpdateRow(r, desc) == [r EXCEPT !.description = desc]

\* if (existingData): the error of the existence check is not read.
ItineraryExists(resp) == resp.rows # <<>>

addOrUpdateItinerary(t, id, desc) ==
  /\ tasks[t].pc = "idle"
  /\ \E o \in Outcomes :
       /\ Len(ItineraryRowsOf(id)) > 1 => o # <<>>
       /\ tasks' = [tasks EXCEPT ![t] =
                      Issued([IdleTask EXCEPT !.op = "upsert", !.id = id,
                                              !.desc = desc],
                             Call("package_itinerary", "select", id, 0),
                             ItineraryCheck(id, o), "itin_check_wait")]
  /\ UNCHANGED <<backendVars, packages, loading, error, destinationId>>

\* The code after the await of line 87: the update or the insert.  Once
\* the table holds MaxItinRows rows the insert fails.
addOrUpdateItineraryWrite(t) ==
  /\ tasks[t].pc = "itin_check_wait"
  /\ LET task == tasks[t]
     IN  \E o \in Outcomes :
           IF ItineraryExists(task.resp)
           THEN /\ dbItinerary' =
                     IF o = <<>>
                     THEN [ i \in DOMAIN dbItinerary |->
                              IF dbItinerary[i].package_id = task.id
                              THEN ItineraryUpdateRow(dbItinerary[i], task.desc)
                              ELSE dbItinerary[i] ]
                     ELSE dbItinerary
                /\ tasks' = [tasks EXCEPT ![t] =
                               Issued(task,
                                      Call("package_itinerary", "update",
                                           task.id, 0),
                                      [err |-> o, rows |-> <<>>],
                                      "itin_write_wait")]
           ELSE /\ Len(dbItinerary) >= MaxItinRows => o # <<>>
                /\ dbItinerary' =
                     IF o = <<>>
                     THEN Append(dbItinerary,
                                 ItineraryInsertRow(task.id, task.desc))
                     ELSE dbItinerary
                /\ tasks' = [tasks EXCEPT ![t] =
                               Issued(task,
                                      Call("package_itinerary", "insert",
                                           task.id,
                                           ItineraryInsertRow(task.id, task.desc).no_of_days),
                                      [err |-> o, rows |-> <<>>],
                                      "itin_write_wait")]
  /\ UNCHANGED <<dbPackages, nextId, packages, loading, error, destinationId>>

\* if (error) throw error, after the update or the insert; the composite
\* save returns savedPackage.
addOrUpdateItineraryResume(t) ==
  /\ tasks[t].pc = "itin_write_wait"
  /\ LET task == tasks[t]
     IN  tasks' = [tasks EXCEPT ![t] =
                     IF ThrowsOnError(task.resp)
                     THEN Rejected(task, task.resp.err[1])
                     ELSE Resolved(task, task.value)]
  /\ UNCHANGED <<backendVars, packages, loading, error, destinationId>>

getItinerary(t, id) ==
  /\ tasks[t].pc = "idle"
  /\ \E o \in Outcomes :
       /\ Len(ItineraryRowsOf(id)) > 1 => o # <<>>
       /\ tasks' = [tasks EXCEPT ![t] =
                      Issued([IdleTask EXCEPT !.op = "get", !.id = id],
                             Call("package_itinerary", "select", id, 0),
                             ItineraryCheck(id, o), "get_wait")]
  /\ UNCHANGED <<backendVars, packages, loading, error, destinationId>>

getItineraryResume(t) ==
  /\ tasks[t].pc = "get_wait"
  /\ LET task == tasks[t]
     IN  tasks' = [tasks EXCEPT ![t] =
                     IF ThrowsOnError(task.resp)
                     THEN Rejected(task, task.resp.err[1])
                     ELSE Resolved(task, task.resp.rows)]
  /\ UNCHANGED <<backendVars, packages, loading, error, destinationId>>

(***************************************************************************)
(* addOrUpdatePackageWithItinerary                                         *)
(***************************************************************************)
JsError(msg) == [isError |-> TRUE, message |-> msg]

\* The message of the composite save's own validation, "" when it passes.
CompositeInvalid(desc) ==
  IF desc = <<>> THEN "Itinerary descriptions are required"
  ELSE IF \E i \in DOMAIN desc : Trim(desc[i]) = <<>>
       THEN "All itinerary descriptions must be filled out"
       ELSE ""

\* An identifier is a non-empty string in the code; 0 stands for none.
HasId(p) == "id" \in DOMAIN p /\ p.id # 0

\* The synchronous start of the composite save, up to its first await.
addOrUpdatePackageWithItinerary(t, p, desc) ==
  /\ tasks[t].pc = "idle"
  /\ LET base == [IdleTask EXCEPT !.op = "composite", !.desc = desc,
                                  !.id = IF HasId(p) THEN p.id ELSE 0]
     IN  IF CompositeInvalid(desc) # ""
         THEN /\ tasks' = [tasks EXCEPT ![t] =
                             Rejected(base, JsError(CompositeInvalid(desc)))]
              /\ UNCHANGED <<dbPackages, nextId>>
         ELSE IF HasId(p)
              THEN IssueUpdatePackage(t, base, p.id, p)
              ELSE IssueInsertPackage(t, base, p)
  /\ UNCHANGED <<dbItinerary, packages, loading, error, destinationId>>

\* The caller that awaited the operation has its result.
Release(t) ==
  /\ tasks[t].pc \in {"resolved", "rejected"}
  /\ tasks' = [tasks EXCEPT ![t] = IdleTask]
  /\ UNCHANGED <<backendVars, packages, loading, error, destinationId>>

(***************************************************************************)
(* AddEditPackageModal                                                     *)
(***************************************************************************)
\* What the user can put into the fields.
DurationInputs ==
  { <<>>, <<"-", "1">>, <<".", "5">>, <<"2", ".", "5">> }
    \cup { <<Digits[n + 1]>> : n \in 0..MaxDays }

TitleInputs == { <<>>, <<" ">>, <<" ", "T">> }

DescriptionInputs == { <<>>, <<"D">> }

PriceInputs == { <<>>, <<"0">>, <<"9", ".", "5">> }

ImageInputs == { <<>>, <<"u">> }

DestinationOptions == { "", "D1" }

ItineraryTexts == { <<>>, <<" ">>, <<"a", " ">> }

\* Resize cutting the front instead of the end.
ResizeFromFront(prev, days) ==
  IF Len(prev) < days
  THEN prev \o [ i \in 1..(days - Len(prev)) |-> <<>> ]
  ELSE SubSeq(prev, Len(prev) - days + 1, Len(prev))

\* The updater of lines 41-52, for days > 0: pad with '', or cut the end.
Resize(prev, days) ==
  IF Len(prev) < days
  THEN prev \o [ i \in 1..(days - Len(prev)) |-> <<>> ]
  ELSE SubSeq(prev, 1, days)

\* useEffect([duration])
DurationEffect(prev, dur) ==
  LET days == OrZero(parseInt(dur))
  IN  IF days > 0 THEN Resize(prev, days) ELSE <<>>

\* Validate with the price checked before the duration.
ValidatePriceFirst ==
  IF selectedDestinationId = "" THEN "Please select a destination"
  ELSE IF Trim(title) = <<>> THEN "Title is required"
  ELSE IF Trim(description) = <<>> THEN "Description is required"
  ELSE IF price = <<>> \/ LeqZero(parseFloat(price))
       THEN "Valid price is required"
  ELSE IF duration = <<>> \/ LeqZero(parseInt(duration))
       THEN "Valid duration is required"
  ELSE IF Trim(mainImageUrl) = <<>> THEN "Main image URL is required"
  ELSE IF Len(itineraryDescriptions) = 0
       THEN "At least one itinerary day is required"
  ELSE IF \E i \in DOMAIN itineraryDescriptions :
            Trim(itineraryDescriptions[i]) = <<>>
       THEN "Please fill in all itinerary descriptions"
  ELSE ""

\* The message of the first check of handleSubmit that throws, "" if none.
Validate ==
  IF selectedDestinationId = "" THEN "Please select a destination"
  ELSE IF Trim(title) = <<>> THEN "Title is required"
  ELSE IF Trim(description) = <<>> THEN "Description is required"
  ELSE IF duration = <<>> \/ LeqZero(parseInt(duration))
       THEN "Valid duration is required"
  ELSE IF price = <<>> \/ LeqZero(parseFloat(price))
       THEN "Valid price is required"
  ELSE IF Trim(mainImageUrl) = <<>> THEN "Main image URL is required"
  ELSE IF Len(itineraryDescriptions) = 0
       THEN "At least one itinerary day is required"
  ELSE IF \E i \in DOMAIN itineraryDescriptions :
            Trim(itineraryDescriptions[i]) = <<>>
       THEN "Please fill in all itinerary descriptions"
  ELSE ""

\* packageData of lines 121-130; the identifier only when editing.
PackageData ==
  LET base == [ destination_id |-> selectedDestinationId,
                title          |-> Trim(title),
                description    |-> Trim(description),
                duration       |-> parseInt(duration),
                price          |-> parseFloat(price),
                main_image_url |-> Trim(mainImageUrl),
                rating         |-> IF pkg # <<>> /\ ~pkg[1].rating.nan
                                      /\ pkg[1].rating.mant # 0
                                   THEN pkg[1].rating ELSE Num(0, 0) ]
  IN  IF pkg # <<>> /\ pkg[1].id # 0
      THEN [ id             |-> pkg[1].id,
             destination_id |-> base.destination_id,
             title          |-> base.title,
             description    |-> base.description,
             duration       |-> base.duration,
             price          |-> base.price,
             main_image_url |-> base.main_image_url,
             rating         |-> base.rating ]
      ELSE base

\* The argument of onSave, lines 132-135.
SaveData ==
  [ packageData |-> PackageData,
    itineraryDescriptions |->
      [ i \in DOMAIN itineraryDescriptions |-> Trim(itineraryDescriptions[i]) ] ]

\* The save callback the parent passes: the hook's composite save.
onSave(data) ==
  addOrUpdatePackageWithItinerary(FormSlot, data.packageData,
                                  data.itineraryDescriptions)

\* The inputs stay enabled while a save is in flight; only the submit
\* control is disabled (disabled={loading}).
Editable == ~closed

\* The field setters of the inputs (onChange).
setSelectedDestinationId(v) ==
  /\ Editable
  /\ selectedDestinationId' = v
  /\ UNCHANGED <<backendVars, hookVars, pkg, title, description, duration,
                 price, mainImageUrl, itineraryDescriptions, formLoading,
                 formError, itinFetch, closed, submitSeq>>

setTitle(v) ==
  /\ Editable
  /\ title' = v
  /\ UNCHANGED <<backendVars, hookVars, pkg, description, duration, price,
                 mainImageUrl, selectedDestinationId, itineraryDescriptions,
                 formLoading, formError, itinFetch, closed, submitSeq>>

setDescription(v) ==
  /\ Editable
  /\ description' = v
  /\ UNCHANGED <<backendVars, hookVars, pkg, title, duration, price,
                 mainImageUrl, selectedDestinationId, itineraryDescriptions,
                 formLoading, formError, itinFetch, closed, submitSeq>>

setPrice(v) ==
  /\ Editable
  /\ price' = v
  /\ UNCHANGED <<backendVars, hookVars, pkg, title, description, duration,
                 mainImageUrl, selectedDestinationId, itineraryDescriptions,
                 formLoading, formError, itinFetch, closed, submitSeq>>

setMainImageUrl(v) ==
  /\ Editable
  /\ mainImageUrl' = v
  /\ UNCHANGED <<backendVars, hookVars, pkg, title, description, duration,
                 price, selectedDestinationId, itineraryDescriptions,
                 formLoading, formError, itinFetch, closed, submitSeq>>

\* setDuration with a new value, and the effect that follows the render.
setDuration(v) ==
  /\ Editable
  /\ v # duration
  /\ duration' = v
  /\ itineraryDescriptions' = DurationEffect(itineraryDescriptions, v)
  /\ UNCHANGED <<backendVars, hookVars, pkg, title, description, price,
                 mainImageUrl, selectedDestinationId, formLoading, formError,
                 itinFetch, closed, submitSeq>>

\* One of the rendered per-day text areas changes.
handleItineraryChange(index, value) ==
  /\ Editable
  /\ index \in DOMAIN itineraryDescriptions
  /\ itineraryDescriptions' = [itineraryDescriptions EXCEPT ![index] = value]
  /\ UNCHANGED <<backendVars, hookVars, pkg, title, description, duration,
                 price, mainImageUrl, selectedDestinationId, formLoading,
                 formError, itinFetch, closed, submitSeq>>

\* fetchExistingItinerary after its await: an error is logged, a row
\* replaces the list with data.description || [].
fetchExistingItineraryResume ==
  /\ ~closed
  /\ itinFetch.pc = "wait"
  /\ itineraryDescriptions' =
       IF itinFetch.resp.err = <<>> /\ itinFetch.resp.rows # <<>>
       THEN itinFetch.resp.rows[1].description
       ELSE itineraryDescriptions
  /\ itinFetch' = [pc |-> "done", resp |-> NoResp]
  /\ UNCHANGED <<backendVars, hookVars, pkg, title, description, duration,
                 price, mainImageUrl, selectedDestinationId, formLoading,
                 formError, closed, submitSeq>>

\* handleSubmit up to its first await: a failed check is caught at once
\* (error shown, loading false again); otherwise onSave is called.  The
\* submit control is disabled while loading.
handleSubmit ==
  /\ Editable
  /\ ~formLoading
  /\ tasks[FormSlot].pc = "idle"
  /\ submitSeq' = 1 - submitSeq
  /\ IF Validate # ""
     THEN /\ formError' = Validate
          /\ formLoading' = FALSE
          /\ UNCHANGED <<backendVars, hookVars>>
     ELSE /\ formError' = ""
          /\ formLoading' = TRUE
          /\ onSave(SaveData)
  /\ UNCHANGED <<pkg, title, description, duration, price, mainImageUrl,
                 selectedDestinationId, itineraryDescriptions, itinFetch,
                 closed>>

\* handleSubmit after await onSave(...): onClose, or the catch; finally.
handleSubmitResume ==
  /\ formLoading
  /\ tasks[FormSlot].pc \in {"resolved", "rejected"}
  /\ IF tasks[FormSlot].pc = "resolved"
     THEN closed' = TRUE /\ formError' = formError
     ELSE /\ closed' = closed
          /\ formError' = MessageOf(tasks[FormSlot].thrown[1],
                                    "An error occurred while saving")
  /\ formLoading' = FALSE
  /\ tasks' = [tasks EXCEPT ![FormSlot] = IdleTask]
  /\ UNCHANGED <<backendVars, packages, loading, error, destinationId, pkg,
                 title, description, duration, price, mainImageUrl,
                 selectedDestinationId, itineraryDescriptions, itinFetch,
                 submitSeq>>

(***************************************************************************)
(* Initial states.                                                         *)
(***************************************************************************)
\* A package of the given duration saved earlier through the form.
StoredPackage(days) ==
  [MakeRow(SamplePackage("D1", <<"T">>), 1, 1) EXCEPT !.duration = Num(days, 0)]

\* Its itinerary row, as the form's save inserted it.
StoredItinerary(days) ==
  ItineraryInsertRow(1, SubSeq(<<DayA, DayB>>, 1, days))

NoBackend == [pk |-> {}, it |-> <<>>, next |-> 1]

WithItinerary(days) ==
  [pk |-> {StoredPackage(days)}, it |-> <<StoredItinerary(days)>>, next |-> 2]

\* A package whose itinerary insert had failed.
WithoutItinerary(days) ==
  [pk |-> {StoredPackage(days)}, it |-> <<>>, next |-> 2]

\* fetchExistingItinerary only logs an error: one error stands for all.
FetchOutcomes == { <<>>, <<[isError |-> FALSE, message |-> "backend error"]>> }

AllIdle == [ t \in Slots |-> IdleTask ]

\* The hook with its first fetch done.
HookLoaded ==
  /\ packages = QueryPackages("")
  /\ loading = FALSE
  /\ error = <<>>
  /\ destinationId = ""
  /\ tasks = AllIdle

\* The form's state after mount without a package in the tables.
FormUnused ==
  /\ pkg = <<>>
  /\ title = <<>> /\ description = <<>> /\ duration = <<>> /\ price = <<>>
  /\ mainImageUrl = <<>>
  /\ selectedDestinationId = ""
  /\ itineraryDescriptions = <<>>
  /\ formLoading = FALSE /\ formError = ""
  /\ itinFetch = [pc |-> "none", resp |-> NoResp]
  /\ closed = FALSE
  /\ submitSeq = 0

\* The modal after mount (lines 20-36 and both effects): create mode, or
\* edit mode for a stored package with fetchExistingItinerary in flight.
FormInit(backends, dests) ==
  \E b \in backends, initialDestinationId \in dests :
    /\ dbPackages = b.pk /\ dbItinerary = b.it /\ nextId = b.next
    /\ HookLoaded
    /\ \E p \in {<<>>} \cup { <<r>> : r \in b.pk } :
         /\ pkg = p
         /\ title = IF p # <<>> THEN p[1].title ELSE <<>>
         /\ description = IF p # <<>> THEN p[1].description ELSE <<>>
         /\ duration = IF p # <<>> THEN NumToString(p[1].duration) ELSE <<>>
         /\ price = IF p # <<>> THEN NumToString(p[1].price) ELSE <<>>
         /\ mainImageUrl = IF p # <<>> THEN p[1].main_image_url ELSE <<>>
         /\ selectedDestinationId =
              IF initialDestinationId # "" THEN initialDestinationId
              ELSE IF p # <<>> THEN p[1].destination_id ELSE ""
         /\ itineraryDescriptions =
              DurationEffect(<<>>, IF p # <<>> THEN NumToString(p[1].duration)
                                   ELSE <<>>)
         /\ \E o \in FetchOutcomes :
              itinFetch =
                IF p = <<>> THEN [pc |-> "none", resp |-> NoResp]
                ELSE [ pc |-> "wait",
                       resp |-> [ err |-> o,
                                  rows |-> IF o = <<>> THEN b.it ELSE <<>> ] ]
    /\ formLoading = FALSE /\ formError = ""
    /\ closed = FALSE
    /\ submitSeq = 0

\* One step of the modal and of the save it awaits, the user's inputs
\* drawn from the given sets.
FormNext(dests, titles, descriptions, durations, prices, images, texts) ==
  \/ \E v \in dests : setSelectedDestinationId(v)
  \/ \E v \in titles : setTitle(v)
  \/ \E v \in descriptions : setDescription(v)
  \/ \E v \in durations : setDuration(v)
  \/ \E v \in prices : setPrice(v)
  \/ \E v \in images : setMainImageUrl(v)
  \/ \E i \in 1..(MaxDays + 1), v \in texts :
       handleItineraryChange(i, v)
  \/ fetchExistingItineraryResume
  \/ handleSubmit
  \/ PackageWriteResume(FormSlot) /\ UNCHANGED formVars
  \/ addOrUpdateItineraryWrite(FormSlot) /\ UNCHANGED formVars
  \/ addOrUpdateItineraryResume(FormSlot) /\ UNCHANGED formVars
  \/ handleSubmitResume

\* The itinerary editor: every duration, the other fields filled in with
\* valid text, the day texts non-blank with a trailing space.
Next ==
  FormNext({"D1"}, {<<" ", "T">>}, {<<"D">>}, DurationInputs,
           {<<"9", ".", "5">>}, {<<"u">>}, {<<"a", " ">>})

\* The tables when the form opens: empty, one two-day package with its
\* itinerary, or one without; the parent passes its destination.
Init == FormInit({NoBackend, WithItinerary(2), WithoutItinerary(2)}, {"D1"})

Spec == Init /\ [][Next]_vars

\* The field checks: every value of the other fields, durations below 2.
NextFields ==
  FormNext(DestinationOptions, TitleInputs, DescriptionInputs,
           { <<>>, <<"0">>, <<"1">>, <<".", "5">> }, PriceInputs, ImageInputs,
           ItineraryTexts)

InitFields == FormInit({NoBackend, WithItinerary(1)}, DestinationOptions)

SpecFields == InitFields /\ [][NextFields]_vars

(***************************************************************************)
(* The hook on its own: the cached list.                                   *)
(***************************************************************************)
\* usePackages(destinationId) after mount: loading, nothing cached, the
\* first fetchPackages in flight against empty tables.
InitCache ==
  /\ dbPackages = {} /\ dbItinerary = <<>> /\ nextId = 1
  /\ packages = <<>>
  /\ loading = TRUE
  /\ error = <<>>
  /\ destinationId \in {"", "D1"}
  /\ \E o \in Outcomes :
       tasks = [AllIdle EXCEPT ![FetchSlot] =
                  Issued([IdleTask EXCEPT !.op = "fetch"],
                         Call("packages", "select", 0, 0),
                         [err |-> o, rows |-> <<>>], "fetch_wait")]
  /\ FormUnused

\* The effect's fetch (and refetch) overlaps the operation the caller
\* awaits.
NextCache ==
  \/ fetchPackages(FetchSlot) /\ UNCHANGED formVars
  \/ fetchPackagesResume(FetchSlot) /\ UNCHANGED formVars
  \/ \E d \in {"", "D1"} : ChangeDestination(FetchSlot, d) /\ UNCHANGED formVars
  \/ \E p \in AddInputs : addPackage(CallerSlot, p) /\ UNCHANGED formVars
  \/ \E id \in CachedIds, u \in UpdateInputs :
       updatePackage(CallerSlot, id, u) /\ UNCHANGED formVars
  \/ PackageWriteResume(CallerSlot) /\ UNCHANGED formVars
  \/ \E id \in CachedIds : deletePackage(CallerSlot, id) /\ UNCHANGED formVars
  \/ deletePackageResume(CallerSlot) /\ UNCHANGED formVars
  \/ Release(CallerSlot) /\ UNCHANGED formVars

SpecCache == InitCache /\ [][NextCache]_vars

(***************************************************************************)
(* The hook on its own: the itinerary operations.                          *)
(***************************************************************************)
\* The hook with its list fetched: one package, no itinerary row yet.
InitItinerary ==
  /\ dbPackages = WithoutItinerary(2).pk
  /\ dbItinerary = <<>>
  /\ nextId = 2
  /\ HookLoaded
  /\ FormUnused

\* The package records handed to the composite save: a new one, or a
\* cached one with its identifier.
CompositeInputs ==
  { SamplePackage("D1", <<"T">>) }
    \cup { [ id             |-> id,
             destination_id |-> "D1",
             title          |-> <<"T">>,
             description    |-> <<"D">>,
             duration       |-> Num(2, 0),
             price          |-> Num(95, 1),
             main_image_url |-> <<"u">>,
             rating         |-> Num(0, 0) ] : id \in CachedIds }

NextItinerary ==
  \/ \E id \in CachedIds, desc \in DescInputs :
       addOrUpdateItinerary(CallerSlot, id, desc) /\ UNCHANGED formVars
  \/ addOrUpdateItineraryWrite(CallerSlot) /\ UNCHANGED formVars
  \/ addOrUpdateItineraryResume(CallerSlot) /\ UNCHANGED formVars
  \/ \E id \in CachedIds : getItinerary(CallerSlot, id) /\ UNCHANGED formVars
  \/ getItineraryResume(CallerSlot) /\ UNCHANGED formVars
  \/ \E p \in CompositeInputs, desc \in CompositeDescInputs \cup DescInputs :
       addOrUpdatePackageWithItinerary(CallerSlot, p, desc)
         /\ UNCHANGED formVars
  \/ PackageWriteResume(CallerSlot) /\ UNCHANGED formVars
  \/ Release(CallerSlot) /\ UNCHANGED formVars

SpecItinerary == InitItinerary /\ [][NextItinerary]_vars

(***************************************************************************)
(* Properties of the modal.                                                *)
(***************************************************************************)
\* C1: after every change of the duration field the itinerary list has
\* length max(d, 0), d the integer parsed from the field (0 when it does
\* not parse); entries below both lengths are unchanged, added entries are
\* empty strings, removed entries are taken from the end.
C1_DurationResizesItinerary ==
  [][ duration' # duration =>
        LET parsed == parseInt(duration')
            d      == IF parsed.nan THEN 0 ELSE parsed.mant
            n      == IF d > 0 THEN d ELSE 0
            old    == itineraryDescriptions
            new    == itineraryDescriptions'
        IN  /\ Len(new) = n
            /\ \A i \in 1..n :
                 IF i <= Len(old) THEN new[i] = old[i] ELSE new[i] = <<>>
    ]_vars

\* Editing the stored two-day package: its itinerary was fetched and the
\* duration then reduced to 1, which kept the first entry.
C1_Witness ==
  /\ pkg # <<>>
  /\ itinFetch.pc = "done"
  /\ duration = <<"1">>
  /\ itineraryDescriptions = <<DayA>>

\* The eight checks of handleSubmit, in order: whether each one fails.
CheckFails ==
  << selectedDestinationId = "",
     Trim(title) = <<>>,
     Trim(description) = <<>>,
     duration = <<>> \/ LeqZero(parseInt(duration)),
     price = <<>> \/ LeqZero(parseFloat(price)),
     Trim(mainImageUrl) = <<>>,
     itineraryDescriptions = <<>>,
     \E i \in DOMAIN itineraryDescriptions :
       Trim(itineraryDescriptions[i]) = <<>> >>

CheckMessage ==
  << "Please select a destination",
     "Title is required",
     "Description is required",
     "Valid duration is required",
     "Valid price is required",
     "Main image URL is required",
     "At least one itinerary day is required",
     "Please fill in all itinerary descriptions" >>

FirstFailing(k) == CheckFails[k] /\ \A j \in 1..(k - 1) : ~CheckFails[j]

\* C2: a submit with at least one failing check shows exactly the message
\* of the first failing check in the order destination, title,
\* description, duration, price, image URL, itinerary non-empty, itinerary
\* entries non-blank; the save callback is not invoked (no remote call)
\* and onClose is not invoked.
C2_FirstFailingCheckShown ==
  [][ submitSeq' # submitSeq =>
        \A k \in 1..8 :
          FirstFailing(k) =>
            /\ formError' = CheckMessage[k]
            /\ tasks' = tasks
            /\ UNCHANGED backendVars
            /\ closed' = closed /\ ~closed'
            /\ ~formLoading'
    ]_vars

\* The last check was the first to fail, and its message is shown.
C2_Witness ==
  /\ FirstFailing(8)
  /\ formError = CheckMessage[8]
  /\ submitSeq = 1
  /\ ~formLoading /\ ~closed

\* C3: in create mode, a save that closes the form issued exactly one
\* insert into packages, then exactly one insert into package_itinerary
\* that references the identifier the package insert returned and whose
\* day count is the number of itinerary entries submitted; onClose comes
\* only after both have completed.
C3_CreateInsertsPackageThenItinerary ==
  [][ (closed' /\ ~closed /\ pkg = <<>>) =>
        LET task    == tasks[FormSlot]
            inserts == SelectSeq(task.calls, LAMBDA c : c.verb = "insert")
        IN  /\ task.pc = "resolved"
            /\ \A i \in DOMAIN task.calls :
                 task.calls[i].verb \in {"insert", "select"}
            /\ Len(inserts) = 2
            /\ inserts[1].tbl = "packages" /\ ~inserts[1].failed
            /\ inserts[2].tbl = "package_itinerary" /\ ~inserts[2].failed
            /\ task.value # <<>>
            /\ inserts[1].package_id = task.value[1].id
            /\ inserts[2].package_id = task.value[1].id
            /\ inserts[2].no_of_days = Len(task.desc)
            /\ task.value[1] \in dbPackages
            /\ \E i \in DOMAIN dbItinerary :
                 /\ dbItinerary[i].package_id = task.value[1].id
                 /\ dbItinerary[i].no_of_days = Len(task.desc)
                 /\ Len(dbItinerary[i].description) = Len(task.desc)
    ]_vars

\* A form in create mode that closed after its save.
C3_Witness ==
  /\ closed
  /\ pkg = <<>>
  /\ dbItinerary # <<>>

\* The package write of the composite save returned an error.
PackageWriteFailed(task) ==
  /\ task.op = "composite"
  /\ task.calls # <<>>
  /\ task.calls[1].tbl = "packages"
  /\ task.calls[1].failed

C6_SaveOnlyWithCompleteItinerary ==
  [][ submitSeq' # submitSeq =>
        LET d        == parseInt(duration)
            list     == itineraryDescriptions
            nonBlank == Cardinality({ i \in DOMAIN list : Trim(list[i]) # <<>> })
            complete == /\ ~d.nan
                        /\ Len(list) = d.mant
                        /\ nonBlank = Len(list)
        IN  /\ tasks'[FormSlot] # tasks[FormSlot] => complete
            /\ ( /\ \A j \in 1..6 : ~CheckFails[j]
                 /\ ~d.nan /\ nonBlank < d.mant )
               => /\ tasks' = tasks
                  /\ formError' \in {CheckMessage[7], CheckMessage[8]}
    ]_vars

(***************************************************************************)
(* Properties of the hook.                                                 *)
(***************************************************************************)
\* The list without the entries of the given identifier, the others in
\* their order.
RECURSIVE Without(_, _)
Without(list, id) ==
  IF list = <<>> THEN <<>>
  ELSE IF Head(list).id = id THEN Without(Tail(list), id)
       ELSE <<Head(list)>> \o Without(Tail(list), id)

C7_DayCountMatchesDescriptions ==
  \A i \in DOMAIN dbItinerary :
    dbItinerary[i].no_of_days = Len(dbItinerary[i].description)

\* C8: whenever no hook operation is in flight, the cached list is the
\* list the backend returns for the current destination filter.
C8_CacheMatchesBackend ==
  (\A t \in Slots : ~InFlight(t)) => packages = QueryPackages(destinationId)

\* C9: an awaited operation one of whose remote calls returned an error
\* rejects, and issues no further remote call after that error.
C9_ErrorStopsOperation ==
  \A t \in Slots :
    /\ ~tasks[t].lateCall
    /\ tasks[t].pc = "resolved" => ~tasks[t].sawError

\* C10: a fetch that fails leaves the cached list as it was and sets a
\* non-null error string; one that succeeds replaces the list with the
\* returned rows; either way loading is false once it has finished.
C10_FetchOutcome ==
  [][ (tasks[FetchSlot].pc = "fetch_wait" /\ tasks'[FetchSlot].pc # "fetch_wait")
        => /\ IF tasks[FetchSlot].resp.err # <<>>
              THEN packages' = packages /\ error' # <<>>
              ELSE packages' = tasks[FetchSlot].resp.rows
           /\ loading' = FALSE
    ]_vars

\* A fetch has failed while a package was cached: the package is still
\* there and the error is set.
C10_Witness ==
  /\ tasks[FetchSlot].pc = "idle"
  /\ error # <<>>
  /\ packages # <<>>
  /\ ~loading

=============================================================================
